---- MODULE Spec2Model ----
(***************************************************************************)
(* Model of src/wikipedia_outline_api.py: the Flask view                   *)
(* get_wikipedia_outline behind GET /api/outline, followed through one     *)
(* request from the parameter check to the response.                       *)
(*                                                                         *)
(* Strings are sequences of characters.  A one-character string is that    *)
(* character; a longer string such as "History" stands for a run of        *)
(* non-whitespace characters that the program never takes apart.  " " is   *)
(* the whitespace character str.strip() removes, "\n" the line separator.  *)
(* Heading texts of the modelled pages hold no line separator.             *)
(***************************************************************************)
EXTENDS Integers, Sequences, FiniteSets, TLC

\* Largest number of heading elements in a fetched page.
MaxElems == 3

VARIABLES pc, country, wikipedia_url, response, content_div,
          outline_lines, result, trace

vars == <<pc, country, wikipedia_url, response, content_div,
          outline_lines, result, trace>>

----------------------------------------------------------------------------
\* Python values

None == [kind |-> "None"]

Str(s) == [kind |-> "str", chars |-> s]

\* truth value of "not country": None and the empty string are falsy
Falsy(v) == IF v.kind = "None" THEN TRUE ELSE v.chars = <<>>

\* str.replace(' ', '_')
ReplaceSpaces(s) == [i \in 1..Len(s) |-> IF s[i] = " " THEN "_" ELSE s[i]]

\* urllib.parse.quote: letters, digits and "_.-~/" are kept, every other
\* character is percent-encoded
Quote(s) == [i \in 1..Len(s) |-> IF s[i] = " " THEN "%20"
                                  ELSE IF s[i] = "'" THEN "%27" ELSE s[i]]

WikipediaUrl(c) == <<"https://en.wikipedia.org/wiki/">> \o Quote(ReplaceSpaces(c))

RECURSIVE LStrip(_)
LStrip(s) == IF s # <<>> /\ Head(s) = " " THEN LStrip(Tail(s)) ELSE s

RECURSIVE RStrip(_)
RStrip(s) == IF s # <<>> /\ s[Len(s)] = " "
             THEN RStrip(SubSeq(s, 1, Len(s) - 1)) ELSE s

\* str.strip()
Strip(s) == RStrip(LStrip(s))

\* '#' * n
Repeat(ch, n) == [i \in 1..n |-> ch]

\* sep.join(lines)
RECURSIVE Join(_, _)
Join(lines, sep) ==
    IF lines = <<>> THEN <<>>
    ELSE IF Len(lines) = 1 THEN lines[1]
    ELSE lines[1] \o sep \o Join(Tail(lines), sep)

----------------------------------------------------------------------------
\* The parsed document

Text(s) == [kind |-> "text", class |-> "", text |-> s]

Span(cls, s) == [kind |-> "span", class |-> cls, text |-> s]

Tag(name, id, children) == [name |-> name, id |-> id, children |-> children]

\* Tag.get_text(): the text of every descendant, in document order
RECURSIVE GetText(_)
GetText(children) ==
    IF children = <<>> THEN <<>>
    ELSE Head(children).text \o GetText(Tail(children))

IsEditSpan(node) == node.kind = "span" /\ node.class = "mw-editsection"

\* tag.find('span', class_='mw-editsection'): position of the first match,
\* 0 for None
FindEditSpan(children) ==
    IF \E i \in 1..Len(children) : IsEditSpan(children[i])
    THEN CHOOSE i \in 1..Len(children) :
            /\ IsEditSpan(children[i])
            /\ \A j \in 1..(i - 1) : ~IsEditSpan(children[j])
    ELSE 0

\* edit_span.extract() when a span was found
ExtractEditSpan(children) ==
    LET i == FindEditSpan(children)
    IN  IF i = 0 THEN children
        ELSE SubSeq(children, 1, i - 1) \o SubSeq(children, i + 1, Len(children))

\* heading_text = tag.get_text().strip(), read after the extraction
HeadingText(tag) == Strip(GetText(ExtractEditSpan(tag.children)))

DigitValue(ch) == CASE ch = "1" -> 1 [] ch = "2" -> 2 [] ch = "3" -> 3
                    [] ch = "4" -> 4 [] ch = "5" -> 5 [] ch = "6" -> 6

\* html_level = int(tag_name[1])
HtmlLevel(tag) == DigitValue(tag.name[2])

\* markdown_level = html_level + 1
MarkdownLevel(tag) == HtmlLevel(tag) + 1

Denylist == { <<"Contents">>,
              <<"Welcome", " ", "to", " ", "Wikipedia">>,
              <<"See", " ", "also">>,
              <<"References">>,
              <<"External", " ", "links">>,
              <<"Further", " ", "reading">>,
              <<"Notes">>,
              <<"Bibliography">> }

\* the condition of the "continue" in the loop
Skipped(heading_text) == heading_text = <<>> \/ heading_text \in Denylist

\* f"{markdown_prefix} {heading_text}"
HeadingLine(tag) == Repeat("#", MarkdownLevel(tag)) \o <<" ">> \o HeadingText(tag)

StructuralNames == { <<"h", "2">>, <<"h", "3">>, <<"h", "4">>,
                     <<"h", "5">>, <<"h", "6">> }

\* content_div.find_all(['h2', 'h3', 'h4', 'h5', 'h6'])
FindAllHeadings(elems) == SelectSeq(elems, LAMBDA e : e.name \in StructuralNames)

IsFirstHeading(e) == e.name = <<"h", "1">> /\ e.id = "firstHeading"

\* content_div.find('h1', {'id': 'firstHeading'})
FindMainTitle(elems) ==
    LET hits == SelectSeq(elems, IsFirstHeading)
    IN  IF hits = <<>> THEN None ELSE Head(hits)

\* variant: the title is emitted without trimming
TitleLinesUntrimmed(elems) ==
    LET main_title_tag == FindMainTitle(elems)
    IN  IF main_title_tag # None /\ Strip(GetText(main_title_tag.children)) # <<>>
        THEN << <<"#", "#", " ">> \o GetText(main_title_tag.children) >>
        ELSE <<>>

\* the title line, when the title tag exists and has text
TitleLines(elems) ==
    LET main_title_tag == FindMainTitle(elems)
    IN  IF main_title_tag # None /\ Strip(GetText(main_title_tag.children)) # <<>>
        THEN << <<"#", "#", " ">> \o Strip(GetText(main_title_tag.children)) >>
        ELSE <<>>

\* the for loop over the headings
RECURSIVE RenderHeadings(_, _)
RenderHeadings(headings, lines) ==
    IF headings = <<>> THEN lines
    ELSE LET tag == Head(headings)
         IN  IF Skipped(HeadingText(tag))
             THEN RenderHeadings(Tail(headings), lines)
             ELSE RenderHeadings(Tail(headings), Append(lines, HeadingLine(tag)))

FixedFirstLine == <<"#", " ", "Contents">>

\* outline_lines at the end of the generation
BuildOutline(elems) ==
    RenderHeadings(FindAllHeadings(elems), <<FixedFirstLine>> \o TitleLines(elems))

\* len(outline_lines) <= 2
TooFewLines(lines) == Len(lines) <= 2

----------------------------------------------------------------------------
\* The requests and the upstream pages the model draws from

H1 == <<"h", "1">>
H2 == <<"h", "2">>
H3 == <<"h", "3">>
H4 == <<"h", "4">>
H5 == <<"h", "5">>
H6 == <<"h", "6">>

EditSpan(s) == Span("mw-editsection", s)

\* h1 elements that carry id="firstHeading"
TitleElements ==
    { Tag(H1, "firstHeading", << Text(<<" ", "France", " ">>) >>),
      Tag(H1, "firstHeading", << Text(<<" ">>) >>),
      Tag(H1, "firstHeading", << Text(<<"References">>) >>),
      Tag(H1, "firstHeading", << Text(<<"France">>), EditSpan(<<"[edit]">>) >>) }

\* every other element
PlainElements ==
    { Tag(H1, "", << Text(<<"Overview">>) >>),
      Tag(H2, "", << Text(<<"History">>), EditSpan(<<"[edit]">>) >>),
      Tag(H3, "", << Text(<<" ", "Early", " ", "years", " ">>) >>),
      Tag(H6, "", << Text(<<"Detail">>), Span("note", <<"(a)">>) >>),
      Tag(H2, "", << Text(<<"References">>), EditSpan(<<"[edit]">>) >>),
      Tag(H3, "", << Text(<<" ", "See", " ", "also", " ">>) >>),
      Tag(H4, "", << Text(<<"references">>) >>),
      Tag(H5, "", << EditSpan(<<"[edit]">>) >>),
      Tag(H2, "", << Text(<<"Geography">>), EditSpan(<<"[edit]">>),
                     EditSpan(<<"[source]">>) >>),
      Tag(H2, "", << Text(<<"Notes">>), EditSpan(<<"[edit]">>),
                     EditSpan(<<"[source]">>) >>) }

Elements == TitleElements \cup PlainElements

\* element ids are unique in a document
ElementSeqs ==
    { s \in UNION { [1..n -> Elements] : n \in 0..MaxElems } :
        \A i, j \in 1..Len(s) : (i # j /\ s[i].id # "") => s[i].id # s[j].id }

\* A page: elems[1..split] lie in div#content, the rest in div#bodyContent;
\* the elements of a div the page does not have lie outside any container.
Pages ==
    { [divs |-> d, elems |-> s, split |-> k] :
        d \in SUBSET {"content", "bodyContent"},
        s \in ElementSeqs,
        k \in 0..MaxElems } 

WellFormedPage(p) ==
    /\ p.split <= Len(p.elems)
    /\ p.divs = {"content"} => p.split = Len(p.elems)
    /\ p.divs = {"bodyContent"} => p.split = 0
    /\ p.divs = {} => p.split = 0

EmptyPage == [divs |-> {}, elems |-> <<>>, split |-> 0]

\* soup.find('div', {'id': id}): the elements of that div, None when absent
FindDiv(page, id) ==
    IF id \notin page.divs THEN None
    ELSE [kind |-> "div", id |-> id,
          elems |-> IF id = "content"
                    THEN SubSeq(page.elems, 1, page.split)
                    ELSE SubSeq(page.elems, page.split + 1, Len(page.elems))]

\* what the GET can come back with
ErrorStatuses == {403, 404, 500, 503}
PassStatuses == {200, 304}
TransportFailures == {"Timeout", "ConnectionError"}

Upstream ==
    { [kind |-> "response", status_code |-> 200, page |-> p] :
        p \in { q \in Pages : WellFormedPage(q) } }
    \cup { [kind |-> "response", status_code |-> st, page |-> EmptyPage] :
             st \in (ErrorStatuses \cup PassStatuses) \ {200} }
    \cup { [kind |-> f, status_code |-> 0, page |-> EmptyPage] :
             f \in TransportFailures }

\* request.args.get('country')
Countries == { None, Str(<<>>), Str(<<"New", " ", "Zealand">>) }

----------------------------------------------------------------------------
\* Responses

CorsHeaders == { <<"Access-Control-Allow-Origin", "*">>,
                 <<"Access-Control-Allow-Methods", "GET, OPTIONS">>,
                 <<"Access-Control-Allow-Headers", "Content-Type">> }

\* add_cors_headers, applied to every response by app.after_request
add_cors_headers(resp) == [resp EXCEPT !.headers = @ \cup CorsHeaders]

\* variant: the status is left out of the return, so Flask answers 200
JsonErrorDefaultStatus(msg, status) ==
    [status |-> 200, mimetype |-> "application/json",
     body |-> [kind |-> "json", error |-> msg, text |-> <<>>], headers |-> {}]

\* return jsonify({'error': msg}), status
JsonError(msg, status) ==
    [status |-> status, mimetype |-> "application/json",
     body |-> [kind |-> "json", error |-> msg, text |-> <<>>], headers |-> {}]

\* return Response(markdown_outline, mimetype='text/markdown')
MarkdownResponse(text) ==
    [status |-> 200, mimetype |-> "text/markdown",
     body |-> [kind |-> "text", error |-> <<>>, text |-> text], headers |-> {}]

\* variant: the missing parameter reported as not found
MissingParamErrorAs404 ==
    JsonError(<<"Missing", " ", "required", " ", "query", " ", "parameter:",
                " ", "country">>, 404)

MissingParamError ==
    JsonError(<<"Missing", " ", "required", " ", "query", " ", "parameter:",
                " ", "country">>, 400)

NotFoundError(c, url) ==
    JsonError(<<"Wikipedia", " ", "page", " ", "not", " ", "found", " ", "for",
                " ", "'">> \o c \o <<"'.", " ", "URL:", " ">> \o url, 404)

HttpError(status) ==
    JsonError(<<"HTTP", " ", "Error", " ", "fetching", " ", "content:", " ">>
              \o <<ToString(status)>>, 500)

NetworkError(failure) ==
    JsonError(<<"Network", " ", "Error", " ", "during", " ", "content", " ",
                "fetch:", " ">> \o <<failure>>, 500)

NoContainerError ==
    JsonError(<<"Could", " ", "not", " ", "find", " ", "the", " ", "main", " ",
                "content", " ", "block", " ", "on", " ", "the", " ",
                "Wikipedia", " ", "page.">>, 500)

InsufficientError ==
    JsonError(<<"Successfully", " ", "fetched", " ", "the", " ", "page,", " ",
                "but", " ", "could", " ", "not", " ", "extract", " ",
                "sufficient", " ", "content", " ", "headings", " ", "beyond",
                " ", "the", " ", "title.">>, 404)

\* variant: only 5xx raises
RaisesHTTPErrorServerOnly(status) == 500 <= status /\ status < 600

\* response.raise_for_status(): HTTPError for 4xx and 5xx
RaisesHTTPError(status) == 400 <= status /\ status < 600

----------------------------------------------------------------------------
\* The request, step by step

Init ==
    /\ pc = "idle"
    /\ country = None
    /\ wikipedia_url = <<>>
    /\ response = None
    /\ content_div = None
    /\ outline_lines = <<>>
    /\ result = None
    /\ trace = <<>>

\* a GET /api/outline arrives; country = request.args.get('country')
ReceiveRequest ==
    /\ pc = "idle"
    /\ \E c \in Countries : country' = c
    /\ pc' = "validate"
    /\ trace' = Append(trace, "request")
    /\ UNCHANGED <<wikipedia_url, response, content_div, outline_lines, result>>

\* if not country: return 400
RejectMissingParam ==
    /\ pc = "validate"
    /\ Falsy(country)
    /\ result' = add_cors_headers(MissingParamError)
    /\ pc' = "done"
    /\ trace' = Append(trace, "respond")
    /\ UNCHANGED <<country, wikipedia_url, response, content_div, outline_lines>>

\* the URL is built from the parameter
BuildUrl ==
    /\ pc = "validate"
    /\ ~Falsy(country)
    /\ wikipedia_url' = WikipediaUrl(country.chars)
    /\ pc' = "fetch"
    /\ trace' = Append(trace, "url")
    /\ UNCHANGED <<country, response, content_div, outline_lines, result>>

\* the try block: requests.get and raise_for_status, and both except clauses
FetchContent ==
    /\ pc = "fetch"
    /\ \E up \in Upstream :
         IF up.kind \in TransportFailures
         THEN /\ result' = add_cors_headers(NetworkError(up.kind))
              /\ pc' = "done"
              /\ trace' = trace \o <<"get", "respond">>
              /\ UNCHANGED response
         ELSE /\ response' = [kind |-> "Response", status_code |-> up.status_code,
                              page |-> up.page]
              /\ IF RaisesHTTPError(up.status_code)
                 THEN /\ result' = add_cors_headers(
                                     IF up.status_code = 404
                                     THEN NotFoundError(country.chars, wikipedia_url)
                                     ELSE HttpError(up.status_code))
                      /\ pc' = "done"
                      /\ trace' = trace \o <<"get", "respond">>
                 ELSE /\ pc' = "parse"
                      /\ trace' = Append(trace, "get")
                      /\ UNCHANGED result
    /\ UNCHANGED <<country, wikipedia_url, content_div, outline_lines>>

\* variant: the fallback container is tried first
ResolveContainerBodyFirst(page) ==
    IF FindDiv(page, "bodyContent") # None THEN FindDiv(page, "bodyContent")
    ELSE FindDiv(page, "content")

\* content_div after the two soup.find calls: div#content, else
\* div#bodyContent, else None
ResolveContainer(page) ==
    IF FindDiv(page, "content") # None THEN FindDiv(page, "content")
    ELSE FindDiv(page, "bodyContent")

\* BeautifulSoup(...), the container lookup and its failure return
LocateContainer ==
    /\ pc = "parse"
    /\ IF ResolveContainer(response.page) # None
       THEN /\ content_div' = ResolveContainer(response.page)
            /\ pc' = "outline"
            /\ trace' = Append(trace, "parse")
            /\ UNCHANGED result
       ELSE /\ result' = add_cors_headers(NoContainerError)
            /\ pc' = "done"
            /\ trace' = trace \o <<"parse", "respond">>
            /\ UNCHANGED content_div
    /\ UNCHANGED <<country, wikipedia_url, response, outline_lines>>

\* the outline generation: fixed line, title line, loop over the headings
GenerateOutline ==
    /\ pc = "outline"
    /\ outline_lines' = BuildOutline(content_div.elems)
    /\ pc' = "check"
    /\ trace' = Append(trace, "outline")
    /\ UNCHANGED <<country, wikipedia_url, response, content_div, result>>

\* the join, the length check and the final return
Respond ==
    /\ pc = "check"
    /\ LET markdown_outline == Join(outline_lines, <<"\n">>)
       IN  result' = add_cors_headers(
                       IF TooFewLines(outline_lines) THEN InsufficientError
                       ELSE MarkdownResponse(markdown_outline))
    /\ pc' = "done"
    /\ trace' = Append(trace, "respond")
    /\ UNCHANGED <<country, wikipedia_url, response, content_div, outline_lines>>

Next ==
    \/ ReceiveRequest
    \/ RejectMissingParam
    \/ BuildUrl
    \/ FetchContent
    \/ LocateContainer
    \/ GenerateOutline
    \/ Respond

Spec == Init /\ [][Next]_vars

----------------------------------------------------------------------------
\* Reading a response back

\* position of the first line separator, 0 when there is none
FirstNewline(s) ==
    IF \E i \in 1..Len(s) : s[i] = "\n"
    THEN CHOOSE i \in 1..Len(s) : s[i] = "\n" /\ \A j \in 1..(i - 1) : s[j] # "\n"
    ELSE 0

\* the lines of a text
RECURSIVE SplitLines(_)
SplitLines(s) ==
    IF FirstNewline(s) = 0 THEN <<s>>
    ELSE <<SubSeq(s, 1, FirstNewline(s) - 1)>>
         \o SplitLines(SubSeq(s, FirstNewline(s) + 1, Len(s)))

\* number of '#' characters a line starts with
RECURSIVE CountHashes(_)
CountHashes(line) ==
    IF line # <<>> /\ Head(line) = "#" THEN 1 + CountHashes(Tail(line)) ELSE 0

\* what follows the '#' characters of a line
AfterHashes(line) == SubSeq(line, CountHashes(line) + 1, Len(line))

\* the text a heading line carries
LineText(line) == Strip(AfterHashes(line))

Contains(s, ch) == \E i \in 1..Len(s) : s[i] = ch

Answered == pc = "done"

Ok200 == pc = "done" /\ result.status = 200

IsJsonError(r) ==
    /\ r.mimetype = "application/json"
    /\ r.body.kind = "json"
    /\ r.body.error # <<>>
    /\ r.body.text = <<>>

BodyLines == SplitLines(result.body.text)

\* the headings of the located container, and those among them that are
\* H2-H6 and pass the empty-text and denylist filters
Container == content_div.elems

IsStructural(e) == HtmlLevel(e) \in 2..6

Survives(e) ==
    /\ IsStructural(e)
    /\ HeadingText(e) # <<>>
    /\ HeadingText(e) \notin Denylist

Survivors == SelectSeq(Container, Survives)

HasTitle == \E i \in 1..Len(Container) :
               /\ IsFirstHeading(Container[i])
               /\ Strip(GetText(Container[i].children)) # <<>>

PreambleLen == IF HasTitle THEN 2 ELSE 1

----------------------------------------------------------------------------
\* Properties

\* C1: for a fetched page whose container is found, the answer is 404 with a
\* JSON error exactly when no H2-H6 heading survives the filters, and 200
\* with the Markdown outline when at least one does, with or without a title.
C1_MinimumContent ==
    (Answered /\ content_div # None) =>
        /\ (result.status = 404 /\ IsJsonError(result)) <=> (Len(Survivors) = 0)
        /\ Len(Survivors) >= 1 =>
              /\ result.status = 200
              /\ result.mimetype = "text/markdown"
              /\ result.body.text = Join(outline_lines, <<"\n">>)

\* C2: in a 200 response no line after the first carries a text equal to a
\* denylisted term, whatever the level of the heading it came from, the
\* title heading included.
C2_Exclusion ==
    Ok200 => \A i \in 2..Len(BodyLines) : LineText(BodyLines[i]) \notin Denylist

\* the text of a heading with every editor-control span removed
FullyCleanText(e) ==
    Strip(GetText(SelectSeq(e.children, LAMBDA n : ~IsEditSpan(n))))

EditSpanChars(e) ==
    UNION { { e.children[k].text[j] : j \in 1..Len(e.children[k].text) } :
              k \in { n \in 1..Len(e.children) : IsEditSpan(e.children[n]) } }

\* C3: the text of an editor-control span nested in a heading of the
\* container is never part of the output, and the empty-text and denylist
\* checks see the text with all such spans removed.  (In the modelled pages
\* the characters of an editor-control span occur in no other text.)
C3_NoiseStripping ==
    Ok200 =>
        /\ \A i \in 1..Len(Container) : \A ch \in EditSpanChars(Container[i]) :
              ~Contains(result.body.text, ch)
        /\ Len(BodyLines) - PreambleLen =
              Len(SelectSeq(Container,
                    LAMBDA e : /\ IsStructural(e)
                               /\ FullyCleanText(e) # <<>>
                               /\ FullyCleanText(e) \notin Denylist))

\* the response body has been handed to the extractor
ReachedExtractor == pc = "parse" \/ Contains(trace, "parse")

\* the three failing outcomes of the fetch and what the claim says of them
FetchFailuresAnswered ==
    /\ (response # None /\ response.status_code = 404) =>
          Answered /\ result.status = 404
    /\ (response # None /\ response.status_code # 404
                        /\ response.status_code \in 400..599) =>
          Answered /\ result.status = 500
    /\ (Contains(trace, "get") /\ response = None) =>
          /\ Answered /\ result.status = 500
          /\ SubSeq(result.body.error, 1, 3) = <<"Network", " ", "Error">>
    /\ (Contains(trace, "get")
          /\ (response = None \/ response.status_code \in 400..599)) =>
          /\ IsJsonError(result)
          /\ ~ReachedExtractor
          /\ content_div = None /\ outline_lines = <<>>

\* C4 as stated: upstream 404 gives 404, any other 4xx/5xx gives 500, a
\* timeout or connection error gives 500 with a network-error message, each
\* with a JSON error and no extraction; only a 2xx result reaches the
\* extractor.
C4_Original ==
    /\ FetchFailuresAnswered
    /\ ReachedExtractor => response.status_code \in 200..299

\* C4 as amended: the same, but every result whose status is not 4xx/5xx
\* reaches the extractor, not only a 2xx one.
C4_FetchClassification ==
    /\ FetchFailuresAnswered
    /\ ReachedExtractor <=>
          (response # None /\ response.status_code \notin 400..599)

C4_Witness ==
    /\ Answered /\ response # None /\ response.status_code = 404
    /\ result.status = 404

\* C5: a request without a country parameter is answered 400 with a JSON
\* error whose message names the parameter.
C5_MissingParameter ==
    (country = None /\ pc \notin {"idle", "validate"}) =>
        /\ Answered
        /\ result.status = 400
        /\ IsJsonError(result)
        /\ Contains(result.body.error, "country")
        /\ ~Contains(trace, "get")

C5_Witness == Answered /\ country = None /\ result.status = 400

\* the headings of a page's div
DivElems(page, id) ==
    IF id = "content" THEN SubSeq(page.elems, 1, page.split)
    ELSE SubSeq(page.elems, page.split + 1, Len(page.elems))

\* C6: headings come from div#content when the page has it, from
\* div#bodyContent when it has only that, and a page with neither is
\* answered 500 with a JSON error and no outline; the outline depends on the
\* headings of the container only, not on which container held them.
C6_ContainerResolution ==
    Contains(trace, "parse") =>
        /\ "content" \in response.page.divs =>
              /\ content_div # None
              /\ content_div.elems = DivElems(response.page, "content")
        /\ response.page.divs = {"bodyContent"} =>
              /\ content_div # None
              /\ content_div.elems = DivElems(response.page, "bodyContent")
        /\ response.page.divs = {} =>
              /\ Answered /\ result.status = 500 /\ IsJsonError(result)
              /\ content_div = None /\ outline_lines = <<>>
        /\ Ok200 =>
              result.body.text =
                  Join(BuildOutline(DivElems(response.page,
                          IF "content" \in response.page.divs
                          THEN "content" ELSE "bodyContent")), <<"\n">>)

C6_Witness ==
    /\ Ok200 /\ content_div.id = "bodyContent"
    /\ response.page.divs = {"bodyContent"}

\* The level shift on the text the loop computed: an emitted H2-H6 heading
\* of level L is a line of L+1 '#' characters, one space and its
\* heading_text; H6 gives seven; an H3 line is one '#' deeper than an H2 line.
LevelShiftOfHeadingText ==
    Ok200 =>
        /\ Len(BodyLines) = PreambleLen + Len(Survivors)
        /\ \A i \in 1..Len(Survivors) :
              LET line == BodyLines[PreambleLen + i]
                  L == HtmlLevel(Survivors[i])
              IN  /\ CountHashes(line) = L + 1
                  /\ AfterHashes(line) = <<" ">> \o HeadingText(Survivors[i])
        /\ \A i, j \in 1..Len(Survivors) :
              (Survivors[i].name = H3 /\ Survivors[j].name = H2) =>
                  CountHashes(BodyLines[PreambleLen + i])
                    = CountHashes(BodyLines[PreambleLen + j]) + 1

\* C7: an emitted H2-H6 heading of level L is a line of exactly L+1 '#'
\* characters, one space and its cleaned text (the text without
\* editor-control spans, trimmed); no clamping, so H6 gives seven; an H3 line
\* is one '#' deeper than an H2 line.
C7_LevelShift ==
    Ok200 =>
        /\ Len(BodyLines) = PreambleLen + Len(Survivors)
        /\ \A i \in 1..Len(Survivors) :
              LET line == BodyLines[PreambleLen + i]
                  L == HtmlLevel(Survivors[i])
              IN  /\ CountHashes(line) = L + 1
                  /\ AfterHashes(line) = <<" ">> \o FullyCleanText(Survivors[i])
        /\ \A i, j \in 1..Len(Survivors) :
              (Survivors[i].name = H3 /\ Survivors[j].name = H2) =>
                  CountHashes(BodyLines[PreambleLen + i])
                    = CountHashes(BodyLines[PreambleLen + j]) + 1

\* C8: a 200 body starts with the line "# Contents"; with a title heading
\* whose text is non-empty after trimming the second line is "## " and the
\* trimmed title; without one the second line is the first structural
\* heading; lines are separated by one newline and none trails.
C8_Preamble ==
    Ok200 =>
        /\ BodyLines[1] = <<"#", " ", "Contents">>
        /\ \A i \in 1..Len(Container) :
              (IsFirstHeading(Container[i])
                 /\ Strip(GetText(Container[i].children)) # <<>>) =>
                 BodyLines[2] = <<"#", "#", " ">>
                                  \o Strip(GetText(Container[i].children))
        /\ ~HasTitle => BodyLines[2] = HeadingLine(Survivors[1])
        /\ result.body.text[Len(result.body.text)] # "\n"
        /\ \A i \in 1..Len(BodyLines) : BodyLines[i] # <<>>
        /\ BodyLines = outline_lines

C8_Witness ==
    /\ Ok200 /\ HasTitle
    /\ \E i \in 1..Len(Container) :
          IsFirstHeading(Container[i]) /\ Head(GetText(Container[i].children)) = " "

\* Order and filtering on the text the loop computed: the structural lines
\* are the H2-H6 headings whose heading_text is non-empty and not
\* denylisted, once each and in document order; no line has empty text.
OrderOfHeadingText ==
    Ok200 =>
        /\ [i \in 1..(Len(BodyLines) - PreambleLen) |->
               LineText(BodyLines[PreambleLen + i])]
             = [i \in 1..Len(Survivors) |-> HeadingText(Survivors[i])]
        /\ \A i \in 1..Len(BodyLines) : LineText(BodyLines[i]) # <<>>

\* the H2-H6 headings of the container whose cleaned text is non-empty and
\* not denylisted
CleanSurvivors ==
    SelectSeq(Container, LAMBDA e : /\ IsStructural(e)
                                    /\ FullyCleanText(e) # <<>>
                                    /\ FullyCleanText(e) \notin Denylist)

\* C9: the structural lines of a 200 body are the H2-H6 headings of the
\* container whose cleaned text is non-empty and not denylisted, once each
\* and in document order; no line has empty text; an h1 that is not the
\* title heading gives no line.
C9_OrderAndNonEmpty ==
    Ok200 =>
        /\ [i \in 1..(Len(BodyLines) - PreambleLen) |->
               LineText(BodyLines[PreambleLen + i])]
             = [i \in 1..Len(CleanSurvivors) |-> FullyCleanText(CleanSurvivors[i])]
        /\ \A i \in 1..Len(BodyLines) : LineText(BodyLines[i]) # <<>>
        /\ \A i \in 1..Len(Container) :
              (Container[i].name = H1 /\ ~IsFirstHeading(Container[i])) =>
                  \A k \in 2..Len(BodyLines) :
                      LineText(BodyLines[k]) # Strip(GetText(Container[i].children))

\* a plain h1 of the container gives no line
PlainH1GivesNoLine ==
    Ok200 =>
        \A i \in 1..Len(Container) :
            (Container[i].name = H1 /\ ~IsFirstHeading(Container[i])) =>
                \A k \in 2..Len(BodyLines) :
                    LineText(BodyLines[k]) # Strip(GetText(Container[i].children))

Steps == <<"request", "url", "get", "parse", "outline">>

WithoutRespond == SelectSeq(trace, LAMBDA st : st # "respond")

\* C10: the steps of a request run in one fixed order, the fetch at most
\* once and only after the parameter check passed, parsing only after a
\* successful fetch; a request ends with one response, and after a failure
\* no later step runs: the response is a complete outline with status 200
\* or a JSON error, never a partial outline.
C10_LinearTerminal ==
    /\ WithoutRespond = SubSeq(Steps, 1, Len(WithoutRespond))
    /\ Cardinality({ i \in 1..Len(trace) : trace[i] = "respond" }) <= 1
    /\ Contains(trace, "respond") <=> Answered
    /\ Answered <=> result # None
    /\ Answered => trace[Len(trace)] = "respond"
    /\ Contains(trace, "get") => ~Falsy(country)
    /\ Contains(trace, "parse") =>
          response # None /\ response.status_code \notin 400..599
    /\ Answered =>
          \/ /\ result.status = 200
             /\ result.body.kind = "text"
             /\ trace = Steps \o <<"respond">>
             /\ result.body.text = Join(BuildOutline(Container), <<"\n">>)
          \/ /\ result.status \in {400, 404, 500}
             /\ IsJsonError(result)
    /\ (Answered /\ result.status = 400) => trace = <<"request", "respond">>
    /\ (Answered /\ content_div = None) =>
          ~Contains(trace, "outline") /\ outline_lines = <<>>

C10_Witness ==
    /\ Ok200
    /\ trace = Steps \o <<"respond">>

====
